---- MODULE Spec2Model ----
(***************************************************************************)
(* A model of stylus-replay: the trace decoder (TraceFrame::parse_frame),  *)
(* the replay reader (FrameReader::next_hostio) and the driver (main).     *)
(*                                                                         *)
(* JSON values (serde_json::Value) are records tagged by `ty`; a field     *)
(* name always carries one type of value, so any two values compare.       *)
(* An Object is the sequence of its <<key, value>> entries in the map's    *)
(* iteration order.  The keys of an `info.address` mapping are written as  *)
(* the sequence of their characters ("19" is <<"1","9">>), so that         *)
(* str::parse::<u8> is computed digit by digit.                            *)
(*                                                                         *)
(* TLC's integers are 32 bit: the traces drawn below keep the leading      *)
(* bytes of every big-endian integer zero so that its value fits.          *)
(***************************************************************************)
EXTENDS Integers, Sequences, FiniteSets, TLC

VARIABLES
    pc,       \* where main is
    receipt,  \* the receipt fetched, if any
    raw,      \* the JSON trace the node returned
    top,      \* the result of TraceFrame::parse_frame on raw
    exit,     \* how main ended
    FRAME,    \* hostio::FRAME, the process-wide reader slot
    callers,  \* the readers suspended while a callee's frame is replayed
    last,     \* the last next_hostio call: its argument, queue and outcome
    hist,     \* the events next_hostio returned from the active reader
    cur,      \* the raw step array the active reader's frame was decoded from
    data,     \* ByteDecoder: the arrays handed to a conversion
    conv      \* ByteDecoder: the conversion applied and its outcome

vars == <<pc, receipt, raw, top, exit, FRAME, callers, last, hist, cur, data,
          conv>>

(***************************************************************************)
(* Bounds of the model.                                                    *)
(***************************************************************************)
MaxSteps == 3

MaxDepth == 2

MaxDecodeSteps == 2

(***************************************************************************)
(* Results: Ok(v), an error value (eyre bail!), or a panic (abort).        *)
(***************************************************************************)
Ok(x) == [tag |-> "Ok", v |-> x]

Err(k, w) == [tag |-> "Err", kind |-> k, what |-> w]

Panic(k, w) == [tag |-> "Panic", kind |-> k, what |-> w]

\* the mutant of Skip: the marker is kept as a step
KeptMarker ==
    [tag |-> "Ok", v |-> [variant |-> "UserEntrypoint"]]

Skip == [tag |-> "Skip"]

Some(x) == [some |-> TRUE, val |-> x]

None == [some |-> FALSE]

(***************************************************************************)
(* serde_json::Value                                                       *)
(***************************************************************************)
PosInt(n) == [ty |-> "Number", num |-> [repr |-> "PosInt", n |-> n]]

NegInt(n) == [ty |-> "Number", num |-> [repr |-> "NegInt", n |-> n]]

\* the float n + 0.5
Float(n) == [ty |-> "Number", num |-> [repr |-> "Float", n |-> n]]

JStr(s) == [ty |-> "String", str |-> s]

JArr(a) == [ty |-> "Array", arr |-> a]

JObj(o) == [ty |-> "Object", obj |-> o]

JNull == [ty |-> "Null"]

\* The payload of a value of type ty (Value::$ty(x) => x).
Payload(value) ==
    CASE value.ty = "Number" -> value.num
      [] value.ty = "String" -> value.str
      [] value.ty = "Array" -> value.arr
      [] value.ty = "Object" -> value.obj

\* Number::as_u64
as_u64(num) == IF num.repr = "PosInt" THEN Some(num.n) ELSE None

\* let v = e; F(v): e is evaluated once, then bound
Let(e, Body(_)) == CHOOSE y \in {Body(v) : v \in {e}} : TRUE

\* the `?` operator: F on the value of an Ok, any other result returned as is
Try(r, Then(_)) ==
    Let(r, LAMBDA x : IF x.tag = "Ok" THEN Then(x.v) ELSE x)

\* the results of statements run in order, each ending in `?`: the first that
\* fails is what the function returns
AllOk(rs) == \A i \in DOMAIN rs : rs[i].tag = "Ok"

FirstFailure(rs) ==
    rs[CHOOSE i \in DOMAIN rs :
          /\ rs[i].tag # "Ok"
          /\ \A j \in DOMAIN rs : rs[j].tag # "Ok" => i <= j]

\* Map::remove: the value under `name`, if any.
MapGet(keys, name) ==
    Let({i \in DOMAIN keys : keys[i][1] = name}, LAMBDA hits :
        IF hits = {} THEN None
        ELSE Some(keys[CHOOSE i \in hits : \A j \in hits : i <= j][2]))

\* Map::remove: the entries left.
MapRemove(keys, name) ==
    LET F[i \in 0..Len(keys)] ==
            IF i = 0 THEN <<>>
            ELSE IF keys[i][1] = name THEN F[i - 1]
            ELSE Append(F[i - 1], keys[i])
    IN  F[Len(keys)]

\* get_typed!(keys, ty, name)
get_typed(keys, ty, name) ==
    Let(MapGet(keys, name), LAMBDA got :
        IF ~got.some THEN Err("object_missing", name)
        ELSE IF got.val.ty = ty THEN Ok(Payload(got.val))
        ELSE Err("unexpected_type", name))

\* the mutant of get_int: the number cut to a byte
get_int_u8(keys, name) ==
    Try(get_typed(keys, "Number", name), LAMBDA num :
        IF as_u64(num).some THEN Ok(as_u64(num).val % 256)
        ELSE Panic("unwrap_none", name))

\* get_int!(name)
get_int(keys, name) ==
    Try(get_typed(keys, "Number", name), LAMBDA num :
        IF as_u64(num).some THEN Ok(as_u64(num).val)
        ELSE Panic("unwrap_none", name))

(***************************************************************************)
(* ByteDecoder: to_data and the convert! functions                         *)
(***************************************************************************)
MinOf(S) == CHOOSE i \in S : \A j \in S : i <= j

\* the sequence f as a tuple
Tuple(f) == f \o <<>>

\* to_data: the first offending element decides the outcome.
to_data(values) ==
    Let({i \in DOMAIN values :
            \/ values[i].ty # "Number"
            \/ ~as_u64(values[i].num).some
            \/ values[i].num.n > 255}, LAMBDA bad :
        IF bad = {}
        THEN Ok(Tuple([i \in DOMAIN values |-> values[i].num.n]))
        ELSE Let(values[MinOf(bad)], LAMBDA v :
                 IF v.ty # "Number" THEN Err("expected_a_byte", "value")
                 ELSE IF ~as_u64(v.num).some
                      THEN Panic("unwrap_none", "as_u64")
                 ELSE Err("expected_a_byte", "byte")))

\* mem::size_of::<$ty>()
size_of(ty) ==
    CASE ty = "u8" -> 1
      [] ty = "u16" -> 2
      [] ty = "u32" -> 4
      [] ty = "u64" -> 8
      [] ty = "U256" -> 32
      [] ty = "B256" -> 32
      [] ty = "Address" -> 20

\* the mutant of from_be_bytes: the value cut to its lowest byte
from_be_bytes_low(x) == IF x = <<>> THEN 0 ELSE x[Len(x)]

\* uN::from_be_bytes, and B256 -> U256
from_be_bytes(x) ==
    LET F[i \in 0..Len(x)] == IF i = 0 THEN 0 ELSE 256 * F[i - 1] + x[i]
    IN  F[Len(x)]

\* the $conv closure of each convert! instance
conv_of(ty, x) ==
    CASE ty = "u8" -> x[1]
      [] ty \in {"u16", "u32", "u64", "U256"} -> from_be_bytes(x)
      [] ty \in {"B256", "Address"} -> x

\* convert!($name, $ty, $conv): to_u8, to_u16, to_u32, to_u64, to_u256,
\* to_b256, to_address
convert(ty, values) ==
    Try(to_data(values), LAMBDA d :
        IF Len(d) # size_of(ty) THEN Err("expected_width", ty)
        ELSE Ok(conv_of(ty, d)))

\* &a[lo..hi]: panics when the range is out of bounds (lo, hi 0-based)
Slice(a, lo, hi) ==
    IF lo <= hi /\ hi <= Len(a) THEN Ok(SubSeq(a, lo + 1, hi))
    ELSE Panic("slice_index", "range")

(***************************************************************************)
(* str::parse::<u8> on the characters of a key                             *)
(***************************************************************************)
DigitOf(c) ==
    CASE c = "0" -> 0 [] c = "1" -> 1 [] c = "2" -> 2 [] c = "3" -> 3
      [] c = "4" -> 4 [] c = "5" -> 5 [] c = "6" -> 6 [] c = "7" -> 7
      [] c = "8" -> 8 [] c = "9" -> 9 [] OTHER -> -1

parse_u8(chars) ==
    Let(IF chars # <<>> /\ chars[1] = "+" THEN Tail(chars) ELSE chars,
        LAMBDA digits :
        LET F[i \in 0..Len(digits)] ==
                IF i = 0 THEN 0
                ELSE IF F[i - 1] < 0 \/ DigitOf(digits[i]) < 0 THEN -1
                ELSE IF 10 * F[i - 1] + DigitOf(digits[i]) > 255 THEN -1
                ELSE 10 * F[i - 1] + DigitOf(digits[i])
        IN  IF digits = <<>> \/ F[Len(digits)] < 0 THEN None
            ELSE Some(F[Len(digits)]))

\* the mutant of sort_by_key: the entries left in the map's order
sort_by_key_none(pairs) == pairs

\* address.sort_by_key(|x| x.0.parse::<u8>().unwrap()): a stable sort
sort_by_key(pairs) ==
    IF Len(pairs) < 2 THEN pairs
    ELSE Let([i \in DOMAIN pairs |-> parse_u8(pairs[i][1]).val], LAMBDA key :
         Let([i \in DOMAIN pairs |->
                 Cardinality({j \in DOMAIN pairs :
                     \/ key[j] < key[i]
                     \/ key[j] = key[i] /\ j <= i})], LAMBDA rank :
             Tuple([r \in DOMAIN pairs |->
                       pairs[CHOOSE i \in DOMAIN pairs : rank[i] = r]])))

(***************************************************************************)
(* HostioKind, Hostio, TraceFrame                                          *)
(***************************************************************************)
\* HostioKind::name
name(kind) ==
    CASE kind.variant = "ReadArgs" -> "read_args"
      [] kind.variant = "WriteResult" -> "write_result"
      [] kind.variant = "MsgValue" -> "msg_value"
      [] kind.variant = "MemoryGrow" -> "memory_grow"
      [] kind.variant = "ContractAddress" -> "contract_address"
      [] kind.variant = "CallContract" -> "call_contract"
      [] kind.variant = "UserEntrypoint" -> "user_entrypoint"
      [] kind.variant = "UserReturned" -> "user_returned"

\* TraceFrame::new
TraceFrame_new(address) == [steps |-> <<>>, address |-> address]

\* the mutant of push: the step put in front
push_front(frame, hostio) ==
    [frame EXCEPT !.steps = <<hostio>> \o frame.steps]

\* frame.steps.push(Hostio { kind, start_ink, end_ink })
push(frame, hostio) == [frame EXCEPT !.steps = Append(frame.steps, hostio)]

\* the mutant of is_marker: only user_entrypoint is dropped
is_marker_entry_only(step_name) == step_name = "user_entrypoint"

\* "user_entrypoint" | "user_returned" => continue
is_marker(step_name) == step_name \in {"user_entrypoint", "user_returned"}

\* the mutant of unsupported: a step of an unknown name is dropped
unsupported_dropped(step_name) == Skip

\* x => todo!("{}", x)
unsupported(step_name) == Panic("todo", step_name)

\* to_X(&a[lo..hi])
convert_slice(ty, a, lo, hi) ==
    Try(Slice(a, lo, hi), LAMBDA s : convert(ty, s))

\* the mutant of to_data_from: the offset forgotten
to_data_whole(a, lo) == to_data(a)

\* to_data(&a[lo..])
to_data_from(a, lo) ==
    Try(Slice(a, lo, Len(a)), LAMBDA s : to_data(s))

\* the values of the sorted entries
values_of(pairs) == Tuple([i \in DOMAIN pairs |-> pairs[i][2]])

RECURSIVE parse_frame(_, _)
RECURSIVE parse_step(_)
RECURSIVE kind_of(_, _, _, _)
RECURSIVE call_contract_arm(_, _, _)
RECURSIVE frame_macro(_)

\* the frame!() macro: the callee's frame of a call_contract step
frame_macro(keys) ==
    Try(get_typed(keys, "Object", "info"), LAMBDA info :
    Try(get_typed(info, "Object", "address"), LAMBDA address :
        IF /\ Len(address) >= 2
           /\ \E i \in DOMAIN address : ~parse_u8(address[i][1]).some
        THEN Panic("unwrap_none", "parse_u8")
        ELSE
        Let(MapGet(MapRemove(info, "address"), "steps"), LAMBDA steps :
            IF ~steps.some THEN Panic("unwrap_none", "steps")
            ELSE
            Try(convert("Address", values_of(sort_by_key(address))),
                LAMBDA to : parse_frame(Some(to), steps.val)))))

\* the call_contract arm: the fields in the order they are written
call_contract_arm(keys, args, outs) ==
    Let(<<convert_slice("Address", args, 0, 20),
          convert_slice("u64", args, 20, 28),
          convert_slice("U256", args, 28, 60),
          to_data_from(args, 60),
          convert_slice("u32", outs, 0, 4),
          convert_slice("u8", outs, 4, Len(outs))>>, LAMBDA f :
        IF ~AllOk(f) THEN FirstFailure(f)
        ELSE
        Try(frame_macro(keys), LAMBDA frame :
            Ok([variant |-> "CallContract", address |-> f[1].v,
                gas |-> f[2].v, value |-> f[3].v, data |-> f[4].v,
                outs_len |-> f[5].v, status |-> f[6].v, frame |-> frame])))

\* the match on the step's name
kind_of(step_name, keys, args, outs) ==
    CASE step_name = "read_args" ->
             Try(to_data(outs), LAMBDA d :
                 Ok([variant |-> "ReadArgs", args |-> d]))
      [] step_name = "write_result" ->
             Try(to_data(args), LAMBDA d :
                 Ok([variant |-> "WriteResult", result |-> d]))
      [] step_name = "msg_value" ->
             Try(convert("B256", outs), LAMBDA d :
                 Ok([variant |-> "MsgValue", value |-> d]))
      [] step_name = "memory_grow" ->
             Try(convert("u16", args), LAMBDA d :
                 Ok([variant |-> "MemoryGrow", pages |-> d]))
      [] step_name = "contract_address" ->
             Try(convert("Address", outs), LAMBDA d :
                 Ok([variant |-> "ContractAddress", address |-> d]))
      [] step_name = "call_contract" -> call_contract_arm(keys, args, outs)
      [] is_marker(step_name) -> Skip
      [] OTHER -> unsupported(step_name)

\* the body of the loop over the steps, for one step: Ok(Hostio), Skip
\* (continue), or the failure that ends parse_frame
parse_step(step) ==
    IF step.ty # "Object" THEN Err("not_a_valid_step", "step")
    ELSE
    Let(<<get_typed(step.obj, "String", "name"),
          get_typed(step.obj, "Array", "args"),
          get_typed(step.obj, "Array", "outs"),
          get_int(step.obj, "startInk"),
          get_int(step.obj, "endInk")>>, LAMBDA f :
        IF ~AllOk(f) THEN FirstFailure(f)
        ELSE
        Try(kind_of(f[1].v, step.obj, f[2].v, f[3].v), LAMBDA kind :
            Ok([kind |-> kind, start_ink |-> f[4].v, end_ink |-> f[5].v])))

\* the steps pushed by the loop over the results rs of its iterations
pushed(frame, rs) ==
    LET F[i \in 0..Len(rs)] ==
            IF i = 0 THEN frame
            ELSE IF rs[i].tag = "Ok" THEN push(F[i - 1], rs[i].v)
            ELSE F[i - 1]
    IN  F[Len(rs)]

\* TraceFrame::parse_frame: the loop ends at the first step that fails, so
\* its outcome is the first failure among the steps, in order, if any
parse_frame(address, array) ==
    IF array.ty # "Array" THEN Err("not_an_array", "array")
    ELSE Let(Tuple([i \in DOMAIN array.arr |-> parse_step(array.arr[i])]),
             LAMBDA rs :
             IF \A i \in DOMAIN rs : rs[i].tag \in {"Ok", "Skip"}
             THEN Ok(pushed(TraceFrame_new(address), rs))
             ELSE rs[CHOOSE i \in DOMAIN rs :
                        /\ rs[i].tag \notin {"Ok", "Skip"}
                        /\ \A j \in DOMAIN rs :
                              rs[j].tag \notin {"Ok", "Skip"} => i <= j])

(***************************************************************************)
(* FrameReader                                                             *)
(***************************************************************************)
RECURSIVE Flattened(_)
\* the steps of a frame with those of the callees' frames put after each call
Flattened(steps) ==
    IF steps = <<>> THEN <<>>
    ELSE <<Head(steps)>>
         \o (IF Head(steps).kind.variant = "CallContract"
             THEN Flattened(Head(steps).kind.frame.steps) ELSE <<>>)
         \o Flattened(Tail(steps))

\* the mutant of reader: the queue holds the callees' steps too
reader_flat(trace) ==
    [frame |-> trace.top_frame, steps |-> Flattened(trace.top_frame.steps)]

\* Trace::reader
reader(trace) == [frame |-> trace.top_frame, steps |-> trace.top_frame.steps]

\* the mutant of pop_front: the queue is read from its back
pop_back(steps) ==
    IF steps = <<>> THEN [item |-> None, steps |-> steps]
    ELSE [item |-> Some(steps[Len(steps)]),
          steps |-> SubSeq(steps, 1, Len(steps) - 1)]

\* VecDeque::pop_front
pop_front(steps) ==
    IF steps = <<>> THEN [item |-> None, steps |-> steps]
    ELSE [item |-> Some(Head(steps)), steps |-> Tail(steps)]

\* the mutant of tolerated: no event is skipped
tolerated_none(event_name) == FALSE

\* the mutant of tolerated: every event is skipped
tolerated_all(event_name) == TRUE

\* "memory_grow" | "user_entrypoint" => continue
tolerated(event_name) == event_name \in {"memory_grow", "user_entrypoint"}

\* the mutant of matches: the popped event is returned whatever its name
matches_any(event_name, expected) == TRUE

\* the mutant of matches: the tolerance test wins over the name test
matches_unless_tolerated(event_name, expected) ==
    event_name = expected /\ ~tolerated(event_name)

\* hostio.kind.name() == expected
matches(event_name, expected) == event_name = expected

\* the mutant of next: an empty queue answers a marker event
next_default(steps) ==
    Let(pop_front(steps), LAMBDA p :
        [res |-> IF p.item.some THEN Ok(p.item.val)
                 ELSE Ok([kind |-> [variant |-> "UserReturned"],
                          start_ink |-> 0, end_ink |-> 0]),
         steps |-> p.steps])

\* FrameReader::next
next(steps) ==
    Let(pop_front(steps), LAMBDA p :
        [res |-> IF p.item.some THEN Ok(p.item.val)
                 ELSE Err("no_next_hostio", "next"),
         steps |-> p.steps])

RECURSIVE next_hostio_loop(_, _, _)
\* the loop of FrameReader::next_hostio, `pops` pops after it began
next_hostio_loop(steps, expected, pops) ==
    Let(next(steps), LAMBDA n :
        IF n.res.tag # "Ok"
        THEN [res |-> Panic("no_next_hostio", expected),
              steps |-> n.steps, pops |-> pops + 1]
        ELSE IF matches(name(n.res.v.kind), expected)
        THEN [res |-> n.res, steps |-> n.steps, pops |-> pops + 1]
        ELSE IF tolerated(name(n.res.v.kind))
        THEN next_hostio_loop(n.steps, expected, pops + 1)
        ELSE [res |-> [tag |-> "Panic", kind |-> "incorrect_hostio",
                       what |-> expected, found |-> n.res.v],
              steps |-> n.steps, pops |-> pops + 1])

\* the mutant of next_hostio: an empty queue is tried once more
next_hostio_retry(steps, expected) ==
    Let(next_hostio_loop(steps, expected, 0), LAMBDA out :
        IF out.res.tag = "Panic" /\ out.res.kind = "no_next_hostio"
        THEN next_hostio_loop(out.steps, expected, out.pops)
        ELSE out)

\* FrameReader::next_hostio
next_hostio(steps, expected) == next_hostio_loop(steps, expected, 0)

(***************************************************************************)
(* The inputs: step objects as the tracer (query.js) emits them            *)
(***************************************************************************)
Bytes(seq) ==
    IF seq = <<>> THEN <<>> ELSE [i \in 1..Len(seq) |-> PosInt(seq[i])]

Zeros(n) == IF n = 0 THEN <<>> ELSE [i \in 1..n |-> 0]

StepFields(step_name, args, outs, startInk, endInk) ==
    << <<"name", JStr(step_name)>>, <<"args", JArr(args)>>,
       <<"outs", JArr(outs)>>, <<"startInk", startInk>>,
       <<"endInk", endInk>> >>

Step(step_name, args, outs, startInk, endInk) ==
    JObj(StepFields(step_name, args, outs, PosInt(startInk), PosInt(endInk)))

Digits == <<"0", "1", "2", "3", "4", "5", "6", "7", "8", "9">>

KeyChars(n) ==
    IF n < 10 THEN <<Digits[n + 1]>>
    ELSE <<Digits[(n \div 10) + 1], Digits[(n % 10) + 1]>>

\* the keys 0..19 in numeric order, in the order of a sorted map, reversed
NumericOrder == [i \in 1..20 |-> i - 1]

LexOrder == <<0, 1, 10, 11, 12, 13, 14, 15, 16, 17, 18, 19, 2, 3, 4, 5, 6, 7,
              8, 9>>

ReverseOrder == [i \in 1..20 |-> 20 - i]

\* { "0": Number, "1": Number, ... } with its entries in the given order
AddressMap(bytes, order) ==
    [i \in 1..Len(order) |->
        <<KeyChars(order[i]), PosInt(bytes[order[i] + 1])>>]

Info(addressMap, steps) ==
    JObj(<< <<"address", JObj(addressMap)>>, <<"steps", JArr(steps)>> >>)

CallStep(args, outs, info) ==
    JObj(StepFields("call_contract", args, outs, PosInt(400), PosInt(300))
         \o << <<"info", info>> >>)

ContractAddr == [i \in 1..20 |-> i]

CalleeAddr(d) == [i \in 1..20 |-> 160 + 4 * i + d]

Gas8 == Zeros(5) \o <<1, 2, 3>>

Value32 == Zeros(30) \o <<1, 0>>

CallArgs(d, calldata) == CalleeAddr(d) \o Gas8 \o Value32 \o calldata

CallOuts(d) == <<0, 0, d, 7, d % 2>>

UE == Step("user_entrypoint", <<>>, <<>>, 0, 0)

UR == Step("user_returned", <<>>, <<>>, 0, 0)

RA == Step("read_args", <<>>, Bytes(<<1, 2, 3, 4>>), 1000, 900)

WR == Step("write_result", Bytes(<<5, 6>>), <<>>, 800, 700)

MG == Step("memory_grow", Bytes(<<1, 2>>), <<>>, 600, 500)

Frob == Step("frobnicate", <<>>, <<>>, 20, 10)

RECURSIVE CallChain(_)
\* a call whose callee makes a call, d frames deep
CallChain(d) ==
    CallStep(Bytes(CallArgs(d, <<170, 187>>)), Bytes(CallOuts(d)),
             Info(AddressMap(CalleeAddr(d), LexOrder),
                  IF d = 1 THEN <<UE, MG, RA, WR, UR>>
                  ELSE <<UE, RA, CallChain(d - 1), WR, UR>>))

SeqsUpTo(S, n) == UNION {[1..k -> S] : k \in 0..n}

ReplayPool == {RA, WR, MG, CallChain(MaxDepth)}

\* a call whose callee's steps hold the given step
NestedStep(step) ==
    CallStep(Bytes(CallArgs(1, <<>>)), Bytes(CallOuts(1)),
             Info(AddressMap(CalleeAddr(1), LexOrder), <<UE, RA, step, UR>>))

\* a read_args step with an element above a byte
RAbig == Step("read_args", <<>>, Bytes(<<1, 300>>), 1000, 900)

\* what debug_trace_transaction answers in the replay model: traces that
\* decode, and traces that fail to, in the root frame or in a callee's
ReplayTraces ==
    {JArr(<<UE>> \o body \o <<UR>>) : body \in SeqsUpTo(ReplayPool, MaxSteps)}
    \cup {JArr(<<UE, RA, Frob, UR>>), JObj(<<>>)}
    \cup {JArr(<<UE, RA, NestedStep(Frob), WR, UR>>),
          JArr(<<UE, NestedStep(RAbig), UR>>)}

HostioNames ==
    {"read_args", "write_result", "msg_value", "memory_grow",
     "contract_address", "call_contract", "user_entrypoint", "user_returned"}

(***************************************************************************)
(* main: acquisition, then the replay                                      *)
(***************************************************************************)
NoCall == [tag |-> "None"]

NoExit == [tag |-> "None"]

Init ==
    /\ pc = "start"
    /\ receipt = None
    /\ raw = JNull
    /\ top = [tag |-> "None"]
    /\ exit = NoExit
    /\ FRAME = None
    /\ callers = <<>>
    /\ last = NoCall
    /\ hist = <<>>
    /\ cur = <<>>
    /\ data = <<>>
    /\ conv = [tag |-> "None"]

Fail(kind, what) ==
    /\ pc' = "failed"
    /\ exit' = Err(kind, what)

\* provider.get_transaction_receipt(hash).await?
GetReceipt ==
    /\ pc = "start"
    /\ \/ /\ receipt' = Some([to |-> Some(ContractAddr)])
          /\ pc' = "receipt"
          /\ UNCHANGED exit
       \/ /\ Fail("failed_to_get_receipt", "tx")
          /\ UNCHANGED receipt
       \/ /\ Fail("transport", "get_transaction_receipt")
          /\ UNCHANGED receipt
    /\ UNCHANGED <<raw, top, FRAME, callers, last, hist, cur, data, conv>>

\* provider.get_transaction(hash).await?
GetTransaction ==
    /\ pc = "receipt"
    /\ \/ /\ pc' = "tx"
          /\ UNCHANGED exit
       \/ Fail("failed_to_get_tx_data", "tx")
       \/ Fail("transport", "get_transaction")
    /\ UNCHANGED <<receipt, raw, top, FRAME, callers, last, hist, cur, data,
                   conv>>

\* provider.debug_trace_transaction(hash, tracer).await?
DebugTrace ==
    /\ pc = "tx"
    /\ \/ /\ \E t \in ReplayTraces : raw' = t
          /\ pc' = "traced"
          /\ UNCHANGED exit
       \/ /\ Fail("malformed_tracing_result", "trace")
          /\ UNCHANGED raw
       \/ /\ Fail("transport", "debug_trace_transaction")
          /\ UNCHANGED raw
    /\ UNCHANGED <<receipt, top, FRAME, callers, last, hist, cur, data, conv>>

\* the mutant of ParseTop: a trace that fails to decode gives an empty frame
ParseTopLenient ==
    /\ pc = "traced"
    /\ \E out \in {parse_frame(receipt.val.to, raw)} :
           top' = IF out.tag = "Ok" THEN out
                  ELSE Ok(TraceFrame_new(receipt.val.to))
    /\ pc' = "trace"
    /\ UNCHANGED <<receipt, raw, exit, FRAME, callers, last, hist, cur, data,
                   conv>>

\* TraceFrame::parse_frame(to, trace)?  and Ok(Self { top_frame, .. })
ParseTop ==
    /\ pc = "traced"
    /\ top' = parse_frame(receipt.val.to, raw)
    /\ pc' = CASE top'.tag = "Ok" -> "trace"
               [] top'.tag = "Err" -> "failed"
               [] OTHER -> "aborted"
    /\ exit' = IF top'.tag = "Ok" THEN exit ELSE top'
    /\ UNCHANGED <<receipt, raw, FRAME, callers, last, hist, cur, data, conv>>

\* util::build_so(&opts.project, opts.stable_rust)?
BuildSo ==
    /\ pc = "trace"
    /\ \/ /\ pc' = "built"
          /\ UNCHANGED exit
       \/ Fail("build_so", "cargo")
    /\ UNCHANGED <<receipt, raw, top, FRAME, callers, last, hist, cur, data,
                   conv>>

\* util::find_so(&opts.project)?
FindSo ==
    /\ pc = "built"
    /\ \/ /\ pc' = "found"
          /\ UNCHANGED exit
       \/ Fail("find_so", "so")
    /\ UNCHANGED <<receipt, raw, top, FRAME, callers, last, hist, cur, data,
                   conv>>

\* the mutant of SetFrame: the slot written before the binary is built
SetFrameBeforeBuild ==
    /\ pc = "trace"
    /\ FRAME' = Some(reader([top_frame |-> top.v]))
    /\ cur' = raw.arr
    /\ pc' = "slot"
    /\ UNCHANGED <<receipt, raw, top, exit, callers, last, hist, data, conv>>

\* *hostio::FRAME.lock() = Some(trace.reader())
SetFrame ==
    /\ pc = "found"
    /\ FRAME' = Some(reader([top_frame |-> top.v]))
    /\ cur' = raw.arr
    /\ pc' = "slot"
    /\ UNCHANGED <<receipt, raw, top, exit, callers, last, hist, data, conv>>

\* libloading::Library::new(so)?  and lib.get(b"user_entrypoint")?
LoadLibrary ==
    /\ pc = "slot"
    /\ \/ /\ pc' = "loaded"
          /\ UNCHANGED exit
       \/ Fail("libloading", "library")
    /\ UNCHANGED <<receipt, raw, top, FRAME, callers, last, hist, cur, data,
                   conv>>

\* main(args_len): the loaded binary starts to run
CallEntry ==
    /\ pc = "loaded"
    /\ pc' = "running"
    /\ UNCHANGED <<receipt, raw, top, exit, FRAME, callers, last, hist, cur,
                   data, conv>>

\* an intercepted host call asks the reader in the slot for its event
NextHostio(expected) ==
    /\ pc = "running"
    /\ FRAME.some
    /\ \E out \in {next_hostio(FRAME.val.steps, expected)} :
           /\ FRAME' = Some([FRAME.val EXCEPT !.steps = out.steps])
           /\ last' = [tag |-> "Call", expected |-> expected,
                       before |-> FRAME.val.steps, res |-> out.res,
                       pops |-> out.pops]
           /\ hist' = IF out.res.tag = "Ok" THEN Append(hist, out.res.v)
                      ELSE hist
           /\ pc' = IF out.res.tag = "Ok" THEN "running" ELSE "aborted"
           /\ exit' = IF out.res.tag = "Ok" THEN exit ELSE out.res
    /\ UNCHANGED <<receipt, raw, top, callers, cur, data, conv>>

\* the n-th step of a raw step array, the markers not counted
NthRetained(rawsteps, n) ==
    LET kept == SelectSeq(rawsteps, LAMBDA st :
                    MapGet(st.obj, "name").val.str
                        \notin {"user_entrypoint", "user_returned"})
    IN  kept[n]

\* the raw `info.steps` of a call_contract step
RawCalleeSteps(step) ==
    MapGet(MapGet(step.obj, "info").val.obj, "steps").val.arr

\* the shim serves a call_contract: a reader over the callee's frame takes
\* the slot while the callee runs
EnterCallee ==
    /\ pc = "running"
    /\ last.tag = "Call"
    /\ last.res.tag = "Ok"
    /\ last.res.v.kind.variant = "CallContract"
    /\ callers' = Append(callers, [rd |-> FRAME.val, hist |-> hist,
                                   cur |-> cur])
    /\ FRAME' = Some([frame |-> last.res.v.kind.frame,
                      steps |-> last.res.v.kind.frame.steps])
    /\ hist' = <<>>
    /\ cur' = RawCalleeSteps(NthRetained(cur,
                  Len(FRAME.val.frame.steps) - Len(FRAME.val.steps)))
    /\ last' = NoCall
    /\ UNCHANGED <<pc, receipt, raw, top, exit, data, conv>>

\* the callee returns: the caller's reader is resumed
LeaveCallee ==
    /\ pc = "running"
    /\ callers # <<>>
    /\ FRAME' = Some(callers[Len(callers)].rd)
    /\ hist' = callers[Len(callers)].hist
    /\ cur' = callers[Len(callers)].cur
    /\ callers' = SubSeq(callers, 1, Len(callers) - 1)
    /\ last' = NoCall
    /\ UNCHANGED <<pc, receipt, raw, top, exit, data, conv>>

\* the binary's entry point returns its status
EntryReturns ==
    /\ pc = "running"
    /\ callers = <<>>
    /\ \E status \in {0, 1, 2} : exit' = Ok(status)
    /\ pc' = "done"
    /\ UNCHANGED <<receipt, raw, top, FRAME, callers, last, hist, cur, data,
                   conv>>

Next ==
    \/ GetReceipt
    \/ GetTransaction
    \/ DebugTrace
    \/ ParseTop
    \/ BuildSo
    \/ FindSo
    \/ SetFrame
    \/ LoadLibrary
    \/ CallEntry
    \/ \E expected \in HostioNames : NextHostio(expected)
    \/ EnterCallee
    \/ LeaveCallee
    \/ EntryReturns

Spec == Init /\ [][Next]_vars

(***************************************************************************)
(* The decoder alone: parse_frame on an array of steps, malformed ones     *)
(* among them                                                              *)
(***************************************************************************)
\* read_args and write_result with the array they do not keep filled too
RAx == Step("read_args", Bytes(<<9, 9>>), Bytes(<<1, 2, 3, 4>>), 1000, 900)

WRx == Step("write_result", Bytes(<<5, 6>>), Bytes(<<8>>), 800, 700)

MV == Step("msg_value", <<>>, Bytes(Zeros(31) \o <<77>>), 450, 440)

CA == Step("contract_address", <<>>, Bytes(ContractAddr), 350, 340)

Call(d, order, calldata, steps) ==
    CallStep(Bytes(CallArgs(d, calldata)), Bytes(CallOuts(d)),
             Info(AddressMap(CalleeAddr(d), order), steps))

CallN == Call(1, NumericOrder, <<>>, <<>>)

CallL == Call(1, LexOrder, <<170>>, <<UE, RA, MG, UR>>)

CallR == Call(1, ReverseOrder, <<170>>, <<UE, RA, MG, UR>>)

RECURSIVE CallFrob(_)
\* a frobnicate step in the callee's frame, d frames deep
CallFrob(d) ==
    Call(d, LexOrder, <<>>,
         IF d = 1 THEN <<UE, RA, Frob, UR>> ELSE <<UE, CallFrob(d - 1), UR>>)

\* steps that do not decode
RA300 == Step("read_args", <<>>, Bytes(<<1, 300>>), 1000, 900)

RAneg == Step("read_args", <<>>, <<PosInt(1), NegInt(-1)>>, 1000, 900)

WRfloat == Step("write_result", <<Float(1)>>, <<>>, 800, 700)

WRstr == Step("write_result", <<JStr("x")>>, <<>>, 800, 700)

MG1 == Step("memory_grow", Bytes(<<1>>), <<>>, 600, 500)

CallShort ==
    CallStep(Bytes(SubSeq(CallArgs(1, <<>>), 1, 10)), Bytes(CallOuts(1)),
             Info(AddressMap(CalleeAddr(1), LexOrder), <<>>))

CallOuts4 ==
    CallStep(Bytes(CallArgs(1, <<>>)), Bytes(<<0, 0, 1, 7>>),
             Info(AddressMap(CalleeAddr(1), LexOrder), <<>>))

NoOuts ==
    JObj(<< <<"name", JStr("read_args")>>, <<"args", JArr(<<>>)>>,
            <<"startInk", PosInt(1000)>>, <<"endInk", PosInt(900)>> >>)

InkNeg ==
    JObj(StepFields("write_result", Bytes(<<5, 6>>), <<>>, NegInt(-5),
                    PosInt(700)))

\* steps with a required field missing or of the wrong type
NoName ==
    JObj(<< <<"args", JArr(<<>>)>>, <<"outs", JArr(<<>>)>>,
            <<"startInk", PosInt(1000)>>, <<"endInk", PosInt(900)>> >>)

NameNum ==
    JObj(<< <<"name", PosInt(7)>>, <<"args", JArr(<<>>)>>,
            <<"outs", JArr(<<>>)>>, <<"startInk", PosInt(1000)>>,
            <<"endInk", PosInt(900)>> >>)

ArgsStr ==
    JObj(<< <<"name", JStr("write_result")>>, <<"args", JStr("x")>>,
            <<"outs", JArr(<<>>)>>, <<"startInk", PosInt(800)>>,
            <<"endInk", PosInt(700)>> >>)

NoEndInk ==
    JObj(<< <<"name", JStr("read_args")>>, <<"args", JArr(<<>>)>>,
            <<"outs", JArr(<<>>)>>, <<"startInk", PosInt(1000)>> >>)

InkStr ==
    JObj(StepFields("read_args", <<>>, <<>>, JStr("x"), PosInt(900)))

InkFloat ==
    JObj(StepFields("read_args", <<>>, <<>>, PosInt(1000), Float(900)))

CallNoInfo ==
    JObj(StepFields("call_contract", Bytes(CallArgs(1, <<>>)),
                    Bytes(CallOuts(1)), PosInt(400), PosInt(300)))

CallNoAddress ==
    CallStep(Bytes(CallArgs(1, <<>>)), Bytes(CallOuts(1)),
             JObj(<< <<"steps", JArr(<<>>)>> >>))

CallNoSteps ==
    CallStep(Bytes(CallArgs(1, <<>>)), Bytes(CallOuts(1)),
             JObj(<< <<"address",
                       JObj(AddressMap(CalleeAddr(1), LexOrder))>> >>))

CallStepsObj ==
    CallStep(Bytes(CallArgs(1, <<>>)), Bytes(CallOuts(1)),
             JObj(<< <<"address",
                       JObj(AddressMap(CalleeAddr(1), LexOrder))>>,
                     <<"steps", JObj(<<>>)>> >>))

FieldPool == {NoName, NameNum, ArgsStr, NoEndInk, InkStr, InkFloat,
              CallNoInfo, CallNoAddress, CallNoSteps, CallStepsObj}

\* the steps that decode
GoodPool == {UE, UR, RA, RAx, WR, WRx, MV, MG, CA, CallN, CallL, CallR,
             CallChain(MaxDepth)}

\* the steps that do not
BadPool == {Frob, CallFrob(MaxDepth), RA300, RAneg, WRfloat, WRstr, MG1,
            CallShort, CallOuts4, NoOuts, InkNeg, JNull} \cup FieldPool

Around == {<<>>, <<RA>>, <<Frob>>, <<RA300>>}

\* arrays of good steps, bare or between the two markers; arrays with one
\* bad step, alone or beside a good, an unknown or another bad step; and a
\* value that is no array
DecodeTraces ==
    {JArr(body) : body \in SeqsUpTo(GoodPool, MaxDecodeSteps)}
    \cup {JArr(<<UE>> \o body \o <<UR>>) :
             body \in SeqsUpTo(GoodPool, MaxDecodeSteps)}
    \cup {JArr(pre \o <<b>> \o post) :
             pre \in Around, b \in BadPool, post \in Around}
    \cup {JObj(<<>>)}

InitDecode ==
    /\ pc = "decode"
    /\ raw \in DecodeTraces
    /\ receipt \in {Some([to |-> None]), Some([to |-> Some(ContractAddr)])}
    /\ top = [tag |-> "None"]
    /\ exit = NoExit
    /\ FRAME = None
    /\ callers = <<>>
    /\ last = NoCall
    /\ hist = <<>>
    /\ cur = <<>>
    /\ data = <<>>
    /\ conv = [tag |-> "None"]

\* TraceFrame::parse_frame(to, trace)
Decode ==
    /\ pc = "decode"
    /\ top' = parse_frame(receipt.val.to, raw)
    /\ pc' = "decoded"
    /\ UNCHANGED <<receipt, raw, exit, FRAME, callers, last, hist, cur, data,
                   conv>>

NextDecode == Decode

SpecDecode == InitDecode /\ [][NextDecode]_vars

(***************************************************************************)
(* The claims about the reader, checked under Spec                         *)
(***************************************************************************)
\* a next_hostio call has been made and nothing has touched the slot since
Called == last.tag = "Call"

EventName(hostio) == name(hostio.kind)

ToleratedNames == {"memory_grow", "user_entrypoint"}

\* how many memory_grow events the queue q starts with
LeadingGrows(q) ==
    Cardinality({i \in DOMAIN q :
        \A j \in 1..i : EventName(q[j]) = "memory_grow"})

\* the first place of q the loop cannot skip for the expected name n: an
\* event named n or an event that is not tolerated (0 when there is none)
FirstStop(q, n) ==
    LET stops == {i \in DOMAIN q :
                     \/ EventName(q[i]) = n
                     \/ EventName(q[i]) \notin ToleratedNames}
    IN  IF stops = {} THEN 0 ELSE MinOf(stops)

\* C1: next_hostio on an empty queue fails with "No next hostio" whatever
\* name is expected: after a single pop, with no event returned, and the
\* process ends
C1_EmptyQueueFails ==
    (Called /\ last.before = <<>>) =>
        /\ last.res = Panic("no_next_hostio", last.expected)
        /\ last.pops = 1
        /\ pc = "aborted"
        /\ FRAME.val.steps = <<>>

C1_Witness ==
    /\ Called
    /\ last.before = <<>>
    /\ last.expected = "write_result"
    /\ Len(FRAME.val.frame.steps) > 0

\* C2: when the queue starts with k memory_grow events followed by an event
\* e named n, n not memory_grow, next_hostio(n) returns e and leaves in the
\* queue exactly what followed e
C2_SkipsMemoryGrow ==
    Called =>
        LET q == last.before
            k == LeadingGrows(q)
        IN  (/\ last.expected # "memory_grow"
             /\ k < Len(q)
             /\ EventName(q[k + 1]) = last.expected) =>
                /\ last.res = Ok(q[k + 1])
                /\ FRAME.val.steps = SubSeq(q, k + 2, Len(q))
                /\ last.pops = k + 1

C2_Witness ==
    /\ Called
    /\ last.expected = "read_args"
    /\ Len(last.before) >= 3
    /\ EventName(last.before[1]) = "memory_grow"
    /\ EventName(last.before[2]) = "memory_grow"
    /\ EventName(last.before[3]) = "read_args"
    /\ last.res = Ok(last.before[3])

\* C3: when the event at which the loop stops is not named n (so it is
\* neither n nor tolerated), next_hostio(n) fails with the mismatch that
\* carries n and that event; and an event that is returned is named n
C3_MismatchIsFatal ==
    Called =>
        LET q == last.before
            i == FirstStop(q, last.expected)
        IN  /\ (i > 0 /\ EventName(q[i]) # last.expected) =>
                  /\ last.res = [tag |-> "Panic", kind |-> "incorrect_hostio",
                                 what |-> last.expected, found |-> q[i]]
                  /\ pc = "aborted"
            /\ last.res.tag = "Ok" => EventName(last.res.v) = last.expected

C3_Witness ==
    /\ Called
    /\ last.before # <<>>
    /\ EventName(last.before[1]) = "call_contract"
    /\ last.expected = "write_result"
    /\ last.res.tag = "Panic"
    /\ last.res.kind = "incorrect_hostio"

RECURSIVE Embeds(_, _, _)
\* the events h are, in order, events of s, and every event of s skipped
\* before the last of them is tolerated; with `exact`, s ends at that last one
Embeds(h, s, exact) ==
    IF h = <<>> THEN (~exact \/ s = <<>>)
    ELSE IF s = <<>> THEN FALSE
    ELSE \/ h[1] = s[1] /\ Embeds(Tail(h), Tail(s), exact)
         \/ EventName(s[1]) \in ToleratedNames /\ Embeds(h, Tail(s), exact)

\* the steps a reader has taken from its queue
Consumed(rd) == SubSeq(rd.frame.steps, 1, Len(rd.frame.steps) - Len(rd.steps))

ReturnedInOrder(rd, h, running) ==
    /\ Embeds(h, rd.frame.steps, FALSE)
    /\ running => Embeds(h, Consumed(rd), h # <<>>)

\* C4: the events a reader has returned are, in order and unchanged, steps
\* of its frame, and the steps passed over before or between them are
\* tolerated ones
C4_ReturnedAreRecordedSteps ==
    FRAME.some =>
        /\ ReturnedInOrder(FRAME.val, hist, pc \in {"running", "done"})
        /\ \A i \in DOMAIN callers :
              ReturnedInOrder(callers[i].rd, callers[i].hist, TRUE)

C4_Witness ==
    /\ FRAME.some
    /\ pc = "running"
    /\ Len(hist) = 2
    /\ Len(Consumed(FRAME.val)) = 3
    /\ EventName(hist[1]) = "memory_grow"
    /\ EventName(Consumed(FRAME.val)[2]) = "memory_grow"

\* the numbers of a raw array of bytes
RawBytes(step, field) ==
    LET a == MapGet(step.obj, field).val.arr
    IN  [i \in DOMAIN a |-> a[i].num.n]

\* the raw step the last returned event was decoded from
LastRawStep ==
    NthRetained(cur, Len(FRAME.val.frame.steps) - Len(FRAME.val.steps))

\* C9: the CallContract event next_hostio returns carries the output length
\* (big-endian, 4 bytes) and the status (1 byte) of its step's outs, in the
\* root frame and in a callee's frame alike
C9_OutsLenAndStatusSurfaced ==
    (Called /\ last.res.tag = "Ok"
            /\ last.res.v.kind.variant = "CallContract") =>
        LET outs == RawBytes(LastRawStep, "outs")
        IN  /\ last.res.v.kind.outs_len =
                  ((outs[1] * 256 + outs[2]) * 256 + outs[3]) * 256 + outs[4]
            /\ last.res.v.kind.status = outs[5]

C9_Witness ==
    /\ Called
    /\ last.res.tag = "Ok"
    /\ last.res.v.kind.variant = "CallContract"
    /\ callers # <<>>
    /\ hist # <<>>
    /\ last.res.v.kind.outs_len = 263
    /\ last.res.v.kind.status = 1

(***************************************************************************)
(* The claims about the decoder, checked under SpecDecode                  *)
(***************************************************************************)
Decoded == pc = "decoded" /\ top.tag = "Ok"

Markers == {"user_entrypoint", "user_returned"}

RawName(step) == MapGet(step.obj, "name").val.str

RawInk(step, field) == MapGet(step.obj, field).val.num.n

\* the numbers of a raw array of bytes, as a sequence
RawSeq(step, field) == Tuple(RawBytes(step, field))

\* the steps of a raw array that are no markers
Retained(rawsteps) ==
    SelectSeq(rawsteps, LAMBDA st : RawName(st) \notin Markers)

RECURSIVE OrderKept(_, _)
\* the frame's steps are the retained raw steps, one for one and in order,
\* and so are those of every callee's frame below it
OrderKept(rawsteps, frame) ==
    Let(Retained(rawsteps), LAMBDA kept :
        /\ Len(frame.steps) = Len(kept)
        /\ \A i \in DOMAIN kept :
              /\ name(frame.steps[i].kind) = RawName(kept[i])
              /\ frame.steps[i].start_ink = RawInk(kept[i], "startInk")
              /\ frame.steps[i].end_ink = RawInk(kept[i], "endInk")
              /\ RawName(kept[i]) = "call_contract" =>
                    OrderKept(RawCalleeSteps(kept[i]),
                              frame.steps[i].kind.frame))

\* C5: a step array that decodes yields a frame whose steps are the input
\* steps without the user_entrypoint and user_returned ones, one decoded
\* step for each of the others, in the input's order, at every nesting level
C5_DecodingPreservesOrder ==
    Decoded => OrderKept(raw.arr, top.v)

C5_Witness ==
    /\ Decoded
    /\ Len(raw.arr) = 4
    /\ RawName(raw.arr[1]) = "user_entrypoint"
    /\ RawName(raw.arr[2]) = "call_contract"
    /\ RawName(raw.arr[3]) = "read_args"
    /\ Len(top.v.steps) = 2
    /\ Len(top.v.steps[1].kind.frame.steps) > 1

\* the raw info.address mapping of a call_contract step
RawAddressMap(step) ==
    MapGet(MapGet(step.obj, "info").val.obj, "address").val.obj

\* the values of a mapping under the keys "0", "1", .., "19", in that order
ByNumericKey(addressMap) ==
    Tuple([k \in 1..20 |-> MapGet(addressMap, KeyChars(k - 1)).val.num.n])

\* the entries of a mapping, their order forgotten
Entries(addressMap) == {addressMap[i] : i \in DOMAIN addressMap}

RECURSIVE AddressKept(_, _)
\* every call_contract step of the frame, and of the frames below it, has a
\* callee frame whose address is its mapping read by numeric key
AddressKept(rawsteps, frame) ==
    Let(Retained(rawsteps), LAMBDA kept :
        \A i \in DOMAIN kept :
            RawName(kept[i]) = "call_contract" =>
                /\ frame.steps[i].kind.frame.address =
                       Some(ByNumericKey(RawAddressMap(kept[i])))
                /\ AddressKept(RawCalleeSteps(kept[i]),
                               frame.steps[i].kind.frame))

\* two call_contract steps of the array whose mappings hold the same entries
\* have callee frames of the same address
SameEntriesSameAddress(rawsteps, frame) ==
    Let(Retained(rawsteps), LAMBDA kept :
        \A i, j \in DOMAIN kept :
            (/\ RawName(kept[i]) = "call_contract"
             /\ RawName(kept[j]) = "call_contract"
             /\ Entries(RawAddressMap(kept[i])) =
                    Entries(RawAddressMap(kept[j]))) =>
                frame.steps[i].kind.frame.address =
                    frame.steps[j].kind.frame.address)

\* C7: the address of the callee's frame of a call_contract step that
\* decodes is the values of its info.address mapping taken in the numeric
\* order of the keys "0".."19", whatever the order of the mapping's entries,
\* so mappings of the same entries give the same address
C7_AddressByNumericKey ==
    Decoded =>
        /\ AddressKept(raw.arr, top.v)
        /\ SameEntriesSameAddress(raw.arr, top.v)

C7_Witness ==
    /\ Decoded
    /\ raw.arr = <<CallL, CallR>>
    /\ RawAddressMap(CallL) # RawAddressMap(CallR)
    /\ RawAddressMap(CallL)[3][1] = <<"1", "0">>
    /\ top.v.steps[1].kind.frame.address = Some(CalleeAddr(1))
    /\ top.v.steps[2].kind.frame.address = Some(CalleeAddr(1))

\* the w bytes of n, big-endian: what from_be_bytes reads n from
to_be_bytes(n, w) ==
    LET Q[k \in 0..w] == IF k = 0 THEN n ELSE Q[k - 1] \div 256
    IN  Tuple([i \in 1..w |-> Q[w - i] % 256])

\* the args of a raw step as far as its Hostio holds them (<<>>: not held)
ArgsOf(hostio) ==
    Let(hostio.kind, LAMBDA kind :
        CASE kind.variant = "WriteResult" -> kind.result
          [] kind.variant = "MemoryGrow" -> to_be_bytes(kind.pages, 2)
          [] kind.variant = "CallContract" ->
                 kind.address \o to_be_bytes(kind.gas, 8)
                     \o to_be_bytes(kind.value, 32) \o kind.data
          [] OTHER -> <<>>)

\* the outs of a raw step as far as its Hostio holds them
OutsOf(hostio) ==
    Let(hostio.kind, LAMBDA kind :
        CASE kind.variant = "ReadArgs" -> kind.args
          [] kind.variant = "MsgValue" -> kind.value
          [] kind.variant = "ContractAddress" -> kind.address
          [] kind.variant = "CallContract" ->
                 to_be_bytes(kind.outs_len, 4) \o <<kind.status>>
          [] OTHER -> <<>>)

\* the operations whose Hostio holds the step's args, and its outs
HoldsArgs == {"write_result", "memory_grow", "call_contract"}

HoldsOuts == {"read_args", "msg_value", "contract_address", "call_contract"}

RECURSIVE HeldFieldsKept(_, _)
HeldFieldsKept(rawsteps, frame) ==
    Let(Retained(rawsteps), LAMBDA kept :
        \A i \in DOMAIN kept :
            /\ frame.steps[i].start_ink = RawInk(kept[i], "startInk")
            /\ frame.steps[i].end_ink = RawInk(kept[i], "endInk")
            /\ RawName(kept[i]) \in HoldsArgs =>
                  ArgsOf(frame.steps[i]) = RawSeq(kept[i], "args")
            /\ RawName(kept[i]) \in HoldsOuts =>
                  OutsOf(frame.steps[i]) = RawSeq(kept[i], "outs")
            /\ RawName(kept[i]) = "call_contract" =>
                  HeldFieldsKept(RawCalleeSteps(kept[i]),
                                 frame.steps[i].kind.frame))

\* C8, as the code has it: of a step array that decodes, the startInk and
\* the endInk of every retained step, and the array its operation reads
\* (outs for read_args, msg_value and contract_address, args for
\* write_result and memory_grow, both for call_contract), are re-extracted
\* from the decoded Hostio exactly; the other array is not in the Hostio
C8_HeldFieldsRoundTrip ==
    Decoded => HeldFieldsKept(raw.arr, top.v)

C8_Witness ==
    /\ Decoded
    /\ Len(raw.arr) = 2
    /\ raw.arr[1] = MG
    /\ raw.arr[2] = CallChain(MaxDepth)
    /\ ArgsOf(top.v.steps[1]) = <<1, 2>>
    /\ Len(ArgsOf(top.v.steps[2])) = 62
    /\ top.v.steps[2].start_ink > 255

\* the four fields of a raw step
FourFields(step) ==
    <<RawSeq(step, "args"), RawSeq(step, "outs"), RawInk(step, "startInk"),
      RawInk(step, "endInk")>>

\* C8, as the spec has it: the args, outs, startInk and endInk of every
\* retained step are a function of its decoded Hostio, so two steps decoded
\* to the same Hostio have the same four fields
C8_FourFieldsRoundTrip ==
    Decoded =>
        Let(Retained(raw.arr), LAMBDA kept :
            \A i, j \in DOMAIN kept :
                (/\ top.v.steps[i].kind.variant = top.v.steps[j].kind.variant
                 /\ top.v.steps[i] = top.v.steps[j]) =>
                    FourFields(kept[i]) = FourFields(kept[j]))

\* the name of a raw value when it is a step object with a string name
NameOr(step, default) ==
    IF step.ty # "Object" THEN default
    ELSE Let(MapGet(step.obj, "name"), LAMBDA n :
             IF n.some /\ n.val.ty = "String" THEN n.val.str ELSE default)

\* the info.steps of a raw value when it has them, else no steps
StepsOr(step) ==
    IF step.ty # "Object" THEN <<>>
    ELSE Let(MapGet(step.obj, "info"), LAMBDA info :
             IF ~info.some \/ info.val.ty # "Object" THEN <<>>
             ELSE Let(MapGet(info.val.obj, "steps"), LAMBDA steps :
                      IF steps.some /\ steps.val.ty = "Array"
                      THEN steps.val.arr ELSE <<>>))

\* a raw step with its info.steps replaced
WithSteps(step, steps) ==
    JObj(MapRemove(step.obj, "info")
         \o << <<"info", Info(RawAddressMap(step), steps)>> >>)

RECURSIVE HasUnknown(_)
\* some step of the array, or of a callee's array below it, has a name that
\* is no operation's
HasUnknown(rawsteps) ==
    \E i \in DOMAIN rawsteps :
        \/ NameOr(rawsteps[i], "read_args") \notin HostioNames
        \/ /\ NameOr(rawsteps[i], "read_args") = "call_contract"
           /\ HasUnknown(StepsOr(rawsteps[i]))

RECURSIVE UnknownFirst(_, _)
\* decoding meets the step named n, no operation's name, before anything
\* else that fails: the steps before it decode, its own five fields are
\* well-formed, and a call_contract step that holds it decodes but for its
\* callee's steps
UnknownFirst(rawsteps, n) ==
    \E i \in DOMAIN rawsteps :
        /\ parse_frame(None, JArr(SubSeq(rawsteps, 1, i - 1))).tag = "Ok"
        /\ \/ /\ NameOr(rawsteps[i], "read_args") = n
              /\ n \notin HostioNames
              /\ parse_step(rawsteps[i]) = unsupported(n)
           \/ /\ NameOr(rawsteps[i], "read_args") = "call_contract"
              /\ StepsOr(rawsteps[i]) # <<>>
              /\ parse_step(WithSteps(rawsteps[i], <<>>)).tag = "Ok"
              /\ UnknownFirst(StepsOr(rawsteps[i]), n)

\* C6, as the code has it: a step array that holds, at any position and any
\* depth, a step of an unknown name never decodes to a frame; decoding ends
\* at the first step that fails, so the failure is the unsupported-operation
\* one, naming the step, when that step is the first to fail, and the
\* failure of an earlier step otherwise
C6_UnknownNameNeverDecodes ==
    (pc = "decoded" /\ raw.ty = "Array" /\ HasUnknown(raw.arr)) =>
        /\ top.tag \in {"Err", "Panic"}
        /\ \A n \in {"frobnicate"} :
              UnknownFirst(raw.arr, n) => top = Panic("todo", n)

C6_Witness ==
    /\ pc = "decoded"
    /\ raw = JArr(<<RA, CallFrob(MaxDepth), RA300>>)
    /\ HasUnknown(raw.arr)
    /\ UnknownFirst(raw.arr, "frobnicate")
    /\ top = Panic("todo", "frobnicate")

\* C6, as the spec has it: a step array that holds, at any position and any
\* depth, a step of an unknown name fails with the unsupported-operation
\* error
C6_UnknownNameIsUnsupported ==
    (pc = "decoded" /\ raw.ty = "Array" /\ HasUnknown(raw.arr)) =>
        /\ top.tag = "Panic"
        /\ top.kind = "todo"

(***************************************************************************)
(* The conversions alone: to_u8 .. to_address and the slices of the        *)
(* call_contract arm, on arrays around each width                          *)
(***************************************************************************)
\* how far from a width the lengths of the arrays go
MaxPad == 1

\* the widths of the conversions, of a call_contract's outs and of the
\* fixed part of its args
Widths == {size_of(ty) : ty \in {"u8", "u16", "u32", "u64", "U256", "B256",
                                 "Address"}} \cup {5, 60}

Lengths == {w + d : w \in Widths, d \in -MaxPad..MaxPad} \cap Nat

\* n bytes, the last two not zero
Plain(n) == IF n = 0 THEN <<>> ELSE [i \in 1..n |-> IF i > n - 2 THEN i ELSE 0]

\* elements at and beyond the edges of a byte
Specials == {PosInt(255), PosInt(256), NegInt(-1), Float(1), JStr("x")}

\* an array of bytes, or one with a special element in its last place or
\* the place before
ByteInputs ==
    {Bytes(Plain(n)) : n \in Lengths}
    \cup UNION {{[Bytes(Plain(n)) EXCEPT ![p] = v] :
                    p \in {n - 1, n} \cap (1..n), v \in Specials} :
                n \in Lengths}

InitBytes ==
    /\ pc = "bytes"
    /\ data \in ByteInputs
    /\ conv = [tag |-> "None"]
    /\ receipt = None
    /\ raw = JNull
    /\ top = [tag |-> "None"]
    /\ exit = NoExit
    /\ FRAME = None
    /\ callers = <<>>
    /\ last = NoCall
    /\ hist = <<>>
    /\ cur = <<>>

Done(op, res) == [tag |-> "Done", op |-> op, res |-> res]

to_u8 ==
    /\ pc = "bytes"
    /\ conv' = Done("u8", convert("u8", data))
    /\ UNCHANGED <<pc, receipt, raw, top, exit, FRAME, callers, last, hist,
                   cur, data>>

to_u16 ==
    /\ pc = "bytes"
    /\ conv' = Done("u16", convert("u16", data))
    /\ UNCHANGED <<pc, receipt, raw, top, exit, FRAME, callers, last, hist,
                   cur, data>>

to_u32 ==
    /\ pc = "bytes"
    /\ conv' = Done("u32", convert("u32", data))
    /\ UNCHANGED <<pc, receipt, raw, top, exit, FRAME, callers, last, hist,
                   cur, data>>

to_u64 ==
    /\ pc = "bytes"
    /\ conv' = Done("u64", convert("u64", data))
    /\ UNCHANGED <<pc, receipt, raw, top, exit, FRAME, callers, last, hist,
                   cur, data>>

to_u256 ==
    /\ pc = "bytes"
    /\ conv' = Done("U256", convert("U256", data))
    /\ UNCHANGED <<pc, receipt, raw, top, exit, FRAME, callers, last, hist,
                   cur, data>>

to_b256 ==
    /\ pc = "bytes"
    /\ conv' = Done("B256", convert("B256", data))
    /\ UNCHANGED <<pc, receipt, raw, top, exit, FRAME, callers, last, hist,
                   cur, data>>

to_address ==
    /\ pc = "bytes"
    /\ conv' = Done("Address", convert("Address", data))
    /\ UNCHANGED <<pc, receipt, raw, top, exit, FRAME, callers, last, hist,
                   cur, data>>

\* the call_contract arm on a step whose args are the array
CallContractArgs ==
    /\ pc = "bytes"
    /\ conv' = Done("call_args",
                    kind_of("call_contract", CallN.obj, data,
                            Bytes(CallOuts(1))))
    /\ UNCHANGED <<pc, receipt, raw, top, exit, FRAME, callers, last, hist,
                   cur, data>>

\* the call_contract arm on a step whose outs are the array
CallContractOuts ==
    /\ pc = "bytes"
    /\ conv' = Done("call_outs",
                    kind_of("call_contract", CallN.obj,
                            Bytes(CallArgs(1, <<>>)), data))
    /\ UNCHANGED <<pc, receipt, raw, top, exit, FRAME, callers, last, hist,
                   cur, data>>

NextBytes ==
    \/ to_u8
    \/ to_u16
    \/ to_u32
    \/ to_u64
    \/ to_u256
    \/ to_b256
    \/ to_address
    \/ CallContractArgs
    \/ CallContractOuts

SpecBytes == InitBytes /\ [][NextBytes]_vars

(***************************************************************************)
(* The claim about the conversions, checked under SpecBytes                *)
(***************************************************************************)
\* an element that is a number in [0, 255]
IsByte(value) ==
    /\ value.ty = "Number"
    /\ value.num.repr = "PosInt"
    /\ value.num.n <= 255

AllBytes(values) == \A i \in DOMAIN values : IsByte(values[i])

FixedWidth == {"u8", "u16", "u32", "u64", "U256", "B256", "Address"}

\* C10: a fixed-width conversion succeeds only on an array of exactly its
\* width whose elements are all numbers in [0, 255], and on any other array
\* it yields a decode error; so does the call_contract arm when the args are
\* shorter than 60 elements, the outs are not exactly 5, or an element is no
\* byte: an error value, never a result and never an abort
C10_ConversionsYieldErrors ==
    conv.tag = "Done" =>
        /\ conv.op \in FixedWidth =>
              IF Len(data) = size_of(conv.op) /\ AllBytes(data)
              THEN conv.res.tag = "Ok"
              ELSE conv.res.tag = "Err"
        /\ (conv.op = "call_args" /\ (Len(data) < 60 \/ ~AllBytes(data))) =>
              conv.res.tag = "Err"
        /\ (conv.op = "call_outs" /\ (Len(data) # 5 \/ ~AllBytes(data))) =>
              conv.res.tag = "Err"

\* the array [-1] given to to_u8 ends in the panic of as_u64().unwrap()
C10_Witness ==
    /\ conv.tag = "Done"
    /\ conv.op = "u8"
    /\ data = <<NegInt(-1)>>
    /\ conv.res = Panic("unwrap_none", "as_u64")

\* what the code does keep of C10: no conversion succeeds on an array that
\* is not of its width or holds an element that is no byte
C10_SucceedsOnlyOnExactBytes ==
    (conv.tag = "Done" /\ conv.res.tag = "Ok") =>
        /\ AllBytes(data)
        /\ conv.op \in FixedWidth => Len(data) = size_of(conv.op)
        /\ conv.op = "call_args" => Len(data) >= 60
        /\ conv.op = "call_outs" => Len(data) = 5

(***************************************************************************)
(* The claim about the required fields, checked under SpecDecode           *)
(***************************************************************************)
\* the value under a key is missing or is not of the type
Lacks(keys, key, ty) ==
    Let(MapGet(keys, key), LAMBDA got : ~got.some \/ got.val.ty # ty)

\* the ink under a key is missing or is no non-negative integer
LacksInk(keys, key) ==
    Let(MapGet(keys, key), LAMBDA got :
        \/ ~got.some
        \/ got.val.ty # "Number"
        \/ got.val.num.repr # "PosInt")

\* the required fields of a step object that are missing or mistyped
Defects(step) ==
    {f \in {"name", "args", "outs"} :
        Lacks(step.obj, f, IF f = "name" THEN "String" ELSE "Array")}
    \cup {f \in {"startInk", "endInk"} : LacksInk(step.obj, f)}
    \cup (IF NameOr(step, "") # "call_contract" THEN {}
          ELSE IF Lacks(step.obj, "info", "Object") THEN {"info"}
          ELSE Let(MapGet(step.obj, "info").val.obj, LAMBDA info :
                   {f \in {"address"} : Lacks(info, f, "Object")}
                   \cup {f \in {"steps"} : Lacks(info, f, "Array")}))

ParseErrors == {"object_missing", "unexpected_type", "not_an_array"}

\* a step object with a defect comes first in the array
DefectFirst ==
    /\ pc = "decoded"
    /\ raw.ty = "Array"
    /\ raw.arr # <<>>
    /\ raw.arr[1].ty = "Object"
    /\ Defects(raw.arr[1]) # {}

\* C11: a step object in which a required field (name, args, outs, startInk,
\* endInk; info, info.address, info.steps of a call_contract) is missing or
\* mistyped, a startInk or endInk that is no non-negative integer included,
\* makes decoding fail with a parse error that names the field: never an
\* abort of another kind, never a frame
C11_DefectIsParseError ==
    DefectFirst =>
        /\ top.tag = "Err"
        /\ top.kind \in ParseErrors
        /\ top.what \in Defects(raw.arr[1]) \cup {"array"}

\* a negative startInk ends in the panic of as_u64().unwrap()
C11_Witness ==
    /\ DefectFirst
    /\ raw.arr[1] = InkNeg
    /\ Defects(raw.arr[1]) = {"startInk"}
    /\ top = Panic("unwrap_none", "startInk")

\* what the code does keep of C11: no step object with a defect decodes
C11_DefectNeverDecodes ==
    DefectFirst => top.tag \in {"Err", "Panic"}

(***************************************************************************)
(* The claim about the layout of a call_contract step, under SpecDecode    *)
(***************************************************************************)
RECURSIVE BigEndian(_)
\* the number whose big-endian bytes are the sequence
BigEndian(bytes) ==
    IF bytes = <<>> THEN 0
    ELSE 256 * BigEndian(SubSeq(bytes, 1, Len(bytes) - 1)) + bytes[Len(bytes)]

\* the fields of a CallContract are the slices of its raw step's args, outs
LaidOut(step, kind) ==
    Let(<<RawSeq(step, "args"), RawSeq(step, "outs")>>, LAMBDA f :
        /\ kind.address = SubSeq(f[1], 1, 20)
        /\ kind.gas = BigEndian(SubSeq(f[1], 21, 28))
        /\ kind.value = BigEndian(SubSeq(f[1], 29, 60))
        /\ kind.data = SubSeq(f[1], 61, Len(f[1]))
        /\ kind.outs_len = BigEndian(SubSeq(f[2], 1, 4))
        /\ kind.status = f[2][5])

RECURSIVE CallsLaidOut(_, _)
CallsLaidOut(rawsteps, frame) ==
    Let(Retained(rawsteps), LAMBDA kept :
        \A i \in DOMAIN kept :
            RawName(kept[i]) = "call_contract" =>
                /\ LaidOut(kept[i], frame.steps[i].kind)
                /\ CallsLaidOut(RawCalleeSteps(kept[i]),
                                frame.steps[i].kind.frame))

\* C12: of a call_contract step that decodes, address is args[0..20], gas
\* the big-endian u64 of args[20..28], value the big-endian 256-bit integer
\* of args[28..60], data args[60..] (possibly empty), outs_len the
\* big-endian u32 of outs[0..4] and status outs[4]
C12_CallContractLayout ==
    Decoded => CallsLaidOut(raw.arr, top.v)

C12_Witness ==
    /\ Decoded
    /\ raw.arr = <<CallN, CallChain(MaxDepth)>>
    /\ top.v.steps[1].kind.data = <<>>
    /\ top.v.steps[2].kind.data = <<170, 187>>
    /\ top.v.steps[2].kind.gas = 66051
    /\ top.v.steps[2].kind.value = 256
    /\ top.v.steps[2].kind.address = CalleeAddr(MaxDepth)
    /\ top.v.steps[2].kind.frame.steps # <<>>

(***************************************************************************)
(* The claims about the run as a whole, checked under Spec                 *)
(***************************************************************************)
\* the receipt and the trace are fetched and the trace is decoded
AcquisitionDone ==
    /\ receipt.some
    /\ raw.ty = "Array"
    /\ top.tag = "Ok"

\* where main is while Trace::new and the build of the binary run
BeforeSlot == {"start", "receipt", "tx", "traced", "trace", "built", "found"}

AcquisitionErrors ==
    {"failed_to_get_receipt", "failed_to_get_tx_data",
     "malformed_tracing_result", "transport"}

\* the trace is fetched and does not decode
DecodeFails ==
    /\ pc \notin {"start", "receipt", "tx", "traced"}
    /\ raw # JNull
    /\ parse_frame(receipt.val.to, raw).tag # "Ok"

\* acquisition has failed: a fetch has, or the decoding has
AcquisitionFailed ==
    \/ exit.tag = "Err" /\ exit.kind \in AcquisitionErrors
    \/ DecodeFails

\* C14: when acquisition fails (receipt, transaction or trace not had) or
\* the decoding fails at any step of any depth, the run ends there: there is
\* no root frame and no reader, the slot stays empty, the entry point of the
\* binary is never called, and nothing happens after the failure
C14_NoPartialResult ==
    /\ [][pc = "traced" =>
             (parse_frame(receipt.val.to, raw).tag # "Ok" =>
                 /\ pc' \in {"failed", "aborted"}
                 /\ top'.tag # "Ok"
                 /\ exit'.tag \in {"Err", "Panic"})]_vars
    /\ [][pc # "traced" => top' = top]_vars
    /\ [](top.tag # "Ok" =>
             /\ pc \in {"start", "receipt", "tx", "traced", "failed",
                        "aborted"}
             /\ FRAME = None
             /\ last = NoCall
             /\ hist = <<>>)
    /\ []((exit.tag = "Err" /\ exit.kind \in AcquisitionErrors) =>
             /\ pc = "failed"
             /\ top.tag # "Ok")
    /\ [][(pc \in {"failed", "aborted"}) => FALSE]_vars

C14_Witness ==
    /\ pc = "aborted"
    /\ FRAME = None
    /\ top = Panic("todo", "frobnicate")
    /\ raw = JArr(<<UE, RA, NestedStep(Frob), WR, UR>>)
    /\ AcquisitionFailed

(***************************************************************************)
(* More claims about the reader, checked under Spec                        *)
(***************************************************************************)
\* the last call returned a CallContract event
ReturnedCall ==
    /\ Called
    /\ last.res.tag = "Ok"
    /\ last.res.v.kind.variant = "CallContract"

\* C15: the queue of a reader holds the direct steps of its frame only: the
\* reader made from the root frame starts with the root's steps, as many as
\* the raw array has steps that are no markers, a callee's steps not among
\* them; a CallContract event that is returned took one entry from the
\* queue, after the tolerated ones skipped, and carries the callee's whole
\* frame as it was decoded
C15_QueueHoldsDirectSteps ==
    /\ pc = "slot" =>
          /\ FRAME.val.frame = top.v
          /\ FRAME.val.steps = top.v.steps
          /\ Len(FRAME.val.steps) = Len(Retained(raw.arr))
    /\ FRAME.some =>
          /\ Len(FRAME.val.frame.steps) = Len(Retained(cur))
          /\ Len(FRAME.val.steps) <= Len(FRAME.val.frame.steps)
    /\ ReturnedCall =>
          /\ last.before[last.pops] = last.res.v
          /\ FRAME.val.steps =
                 SubSeq(last.before, last.pops + 1, Len(last.before))
          /\ \A i \in 1..(last.pops - 1) :
                EventName(last.before[i]) \in ToleratedNames
          /\ Ok(last.res.v.kind.frame) =
                 parse_frame(last.res.v.kind.frame.address,
                             JArr(RawCalleeSteps(LastRawStep)))

C15_Witness ==
    /\ ReturnedCall
    /\ callers = <<>>
    /\ last.pops = 2
    /\ Len(last.before) = 3
    /\ Len(FRAME.val.steps) = 1
    /\ Len(last.res.v.kind.frame.steps) = 3
    /\ Len(Flattened(FRAME.val.frame.steps)) > Len(FRAME.val.frame.steps)

\* s is what is left of q after some of its first entries are taken
IsSuffix(s, q) ==
    /\ Len(s) <= Len(q)
    /\ s = SubSeq(q, Len(q) - Len(s) + 1, Len(q))

\* C16: the queue of a reader is always a suffix of the steps of its frame,
\* and the frame it stores does not change; a next_hostio call leaves a
\* suffix of the queue it found (never more entries, never another order),
\* takes at least one entry from a queue that is not empty, and leaves an
\* empty queue empty
C16_QueueOnlyShrinks ==
    /\ [](FRAME.some =>
             /\ IsSuffix(FRAME.val.steps, FRAME.val.frame.steps)
             /\ callers = <<>> => FRAME.val.frame = top.v
             /\ \A i \in DOMAIN callers :
                   IsSuffix(callers[i].rd.steps, callers[i].rd.frame.steps))
    /\ [][(\E expected \in HostioNames : NextHostio(expected)) =>
             /\ FRAME'.val.frame = FRAME.val.frame
             /\ IsSuffix(FRAME'.val.steps, FRAME.val.steps)
             /\ FRAME.val.steps # <<>> =>
                   Len(FRAME'.val.steps) < Len(FRAME.val.steps)
             /\ FRAME.val.steps = <<>> => FRAME'.val.steps = <<>>]_vars

C16_Witness ==
    /\ Called
    /\ callers = <<>>
    /\ Len(FRAME.val.frame.steps) = 3
    /\ Len(last.before) = 2
    /\ FRAME.val.steps = <<>>
    /\ last.res.tag = "Ok"

\* C17: the name test comes before the tolerance test: when the event at
\* the head of the queue has the expected name, a tolerated name such as
\* memory_grow included, next_hostio returns that event and takes one entry
C17_NameTestFirst ==
    (/\ Called
     /\ last.before # <<>>
     /\ EventName(last.before[1]) = last.expected) =>
        /\ last.res = Ok(last.before[1])
        /\ last.pops = 1
        /\ FRAME.val.steps = Tail(last.before)

C17_Witness ==
    /\ Called
    /\ last.expected = "memory_grow"
    /\ Len(last.before) >= 2
    /\ EventName(last.before[1]) = "memory_grow"
    /\ EventName(last.before[2]) = "memory_grow"
    /\ last.res = Ok(last.before[1])
    /\ Len(FRAME.val.steps) = Len(last.before) - 1

\* every event of the queue is tolerated and none has the name
OnlyTolerated(q, n) ==
    \A i \in DOMAIN q :
        /\ EventName(q[i]) \in ToleratedNames
        /\ EventName(q[i]) # n

\* C18: on a queue that is not empty and holds tolerated events only, none
\* of the expected name n, next_hostio(n) takes them all and fails with
\* "No next hostio", not with the mismatch; the queue is left empty
C18_OnlyToleratedThenNoNext ==
    (/\ Called
     /\ last.before # <<>>
     /\ OnlyTolerated(last.before, last.expected)) =>
        /\ last.res = Panic("no_next_hostio", last.expected)
        /\ last.pops = Len(last.before) + 1
        /\ FRAME.val.steps = <<>>
        /\ pc = "aborted"

C18_Witness ==
    /\ Called
    /\ last.expected = "read_args"
    /\ Len(last.before) = 2
    /\ OnlyTolerated(last.before, "read_args")
    /\ last.res.tag = "Panic"
    /\ last.res.kind = "no_next_hostio"

MarkerVariants == {"UserEntrypoint", "UserReturned"}

RECURSIVE NoMarkers(_)
\* no step of the frame, or of a callee's frame below it, is a marker
NoMarkers(frame) ==
    \A i \in DOMAIN frame.steps :
        /\ frame.steps[i].kind.variant \notin MarkerVariants
        /\ frame.steps[i].kind.variant = "CallContract" =>
              NoMarkers(frame.steps[i].kind.frame)

\* the raw array has a marker among its steps
HasMarker(rawsteps) ==
    \E i \in DOMAIN rawsteps : RawName(rawsteps[i]) \in Markers

\* C19: a frame the decoder produces holds no UserEntrypoint and no
\* UserReturned step, at any depth, so the queue of a reader never holds
\* one, and what next_hostio skips is never a user_entrypoint: the branch
\* that tolerates it is not taken
C19_MarkersNeverReachReader ==
    /\ top.tag = "Ok" => NoMarkers(top.v)
    /\ FRAME.some =>
          /\ NoMarkers(FRAME.val.frame)
          /\ \A i \in DOMAIN FRAME.val.steps :
                FRAME.val.steps[i].kind.variant \notin MarkerVariants
          /\ \A c \in DOMAIN callers : NoMarkers(callers[c].rd.frame)
    /\ (Called /\ last.res.tag = "Ok") =>
          \A i \in 1..(last.pops - 1) :
              EventName(last.before[i]) = "memory_grow"
    /\ (Called /\ last.res.tag = "Panic") =>
          \A i \in 1..(last.pops - 1) :
              i <= Len(last.before) =>
                  EventName(last.before[i]) # "user_entrypoint"

C19_Witness ==
    /\ Called
    /\ callers # <<>>
    /\ HasMarker(raw.arr)
    /\ HasMarker(cur)
    /\ last.pops = 2
    /\ last.res.tag = "Ok"
    /\ Len(FRAME.val.frame.steps) = Len(cur) - 2

\* C20: a next_hostio call ends, in an event, the mismatch or "No next
\* hostio", after at most L + 1 pops on a queue of L entries, whatever name
\* is expected and whatever the queue holds
C20_AtMostLPlusOnePops ==
    Called =>
        /\ last.res.tag \in {"Ok", "Panic"}
        /\ last.pops >= 1
        /\ last.pops <= Len(last.before) + 1
        /\ last.pops = Len(last.before) + 1 =>
              /\ last.res = Panic("no_next_hostio", last.expected)
              /\ FRAME.val.steps = <<>>
        /\ last.pops <= Len(last.before) =>
              Len(FRAME.val.steps) = Len(last.before) - last.pops

C20_Witness ==
    /\ Called
    /\ Len(last.before) = 3
    /\ last.pops = 4
    /\ last.res.tag = "Panic"
    /\ last.expected = "write_result"

====
